---- MODULE Spec2Model ----
(***************************************************************************)
(* Model of search.py: the inverted-index engine                           *)
(* (BOWInvertedIndexEngine), the LRU result cache (LRUCache, a wrapper     *)
(* around pylru.lrucache) and their combination                            *)
(* (BOWInvertedIndexEngineWithCache).                                      *)
(*                                                                         *)
(* A text is a sequence of one-character strings.  A word is a non-empty   *)
(* sequence of characters.  Identifiers are integers (the reference uses   *)
(* file paths; only equality and the total order used by min() matter).    *)
(*                                                                         *)
(* The cached and the uncached engine are driven by the same add calls;    *)
(* both run the inherited process_corpus on the same arguments, so one     *)
(* variable inverted_index stands for the index of either engine.          *)
(***************************************************************************)
EXTENDS Integers, Sequences, FiniteSets, TLC

\* ------------------------------------------------------------------ bounds

\* identifiers are 1..MaxId
MaxId == 3
\* at most MaxDocs calls of process_corpus in one behaviour of the engine without cache
MaxDocs == 3
\* at most MaxCacheDocs calls of process_corpus in one behaviour of the engine with cache
MaxCacheDocs == 1
\* at most MaxBuildDocs calls of process_corpus where documents of BuildTexts are added
MaxBuildDocs == 2
\* texts given to the tokenizer alone have at most MaxLen characters
MaxLen == 3

Ids == 1..MaxId

\* ------------------------------------------------------- character classes

Lowers == {"a", "b", "c"}
Uppers == {"A", "B"}
Digits == {"7"}
Underscore == {"_"}
Puncts == {","}
Space == {" "}
OtherWS == {"\t"}

\* the characters of the model
Chars == Lowers \cup Uppers \cup Digits \cup Underscore \cup Puncts \cup Space \cup OtherWS

\* str.lower() on one character
LowerChar(c) ==
  CASE c = "A" -> "a"
    [] c = "B" -> "b"
    [] OTHER -> c

\* the class \w of the regular expression: letters, digits and underscore
IsWordChar(c) == c \in Lowers \cup Uppers \cup Digits \cup Underscore

\* re.sub(r'[^\w ]', ' ', text)
re_sub(text) ==
  [i \in 1..Len(text) |-> IF IsWordChar(text[i]) \/ text[i] = " " THEN text[i] ELSE " "]

\* text.lower()
lower(text) == [i \in 1..Len(text) |-> LowerChar(text[i])]

\* text.split(' '): the pieces between single spaces, empty pieces included
RECURSIVE split(_, _)
split(text, piece) ==
  IF text = <<>> THEN <<piece>>
  ELSE IF Head(text) = " " THEN <<piece>> \o split(Tail(text), <<>>)
  ELSE split(Tail(text), Append(piece, Head(text)))

\* set(filter(None, word_list))
parse_text_to_word(text) ==
  LET word_list == split(lower(re_sub(text)), <<>>)
  IN  {word_list[i] : i \in {j \in 1..Len(word_list) : word_list[j] # <<>>}}

\* ------------------------------------------------------- inputs of the model

\* texts of the documents that may be added
Texts == { <<"a">>, <<"B">>, <<"a", ",", "b">>, <<",">> }

\* texts of the documents added to the engine with cache in the longer builds
BuildTexts == { <<"a">>, <<"a", ",", "b">> }

\* texts and queries over three words, for the order of the query words
PermTexts == { <<"a", " ", "b", " ", "c">>, <<"a", " ", "b">>, <<"b", " ", "c">> }

PermQueries == { <<"a", " ", "b", " ", "c">>, <<"c", " ", "a">> }

\* raw query strings that may be searched
Queries == { <<"a">>, <<"A">>, <<"a", " ", "b">>, <<>>, <<",">> }

\* the word sets the queries tokenize to
QueryWordSets == {parse_text_to_word(q) : q \in Queries}

\* all orderings of a finite set as sequences without repetition
Orderings(S) ==
  {s \in [1..Cardinality(S) -> S] : \A i, j \in 1..Cardinality(S) : s[i] = s[j] => i = j}

\* ---------------------------------------------------------------- state

VARIABLES
  inverted_index,  \* self.inverted_index: word -> list of identifiers
  set_order,       \* iteration order of each word set (fixed by the string hashes of the run)
  cache,           \* self.cache: list of [key, value] entries, most recently used first
  added,           \* history: the (id, text) pairs passed to process_corpus, in call order
  seen,            \* history, kept when its domain is Queries: per query, what the
                   \* cached engine returned since the last add
  last,            \* history: the last call and what it returned
  parsed           \* a text, and its word set once parse_text_to_word was applied to it

vars == <<inverted_index, set_order, cache, added, seen, last, parsed>>

\* ------------------------------------------------------- BOWInvertedIndexEngine

\* a process_corpus that skips an identifier the list already holds
IndexAfter_dedup(index, id, text) ==
  [w \in DOMAIN index \cup parse_text_to_word(text) |->
     IF w \in parse_text_to_word(text)
       THEN (IF w \in DOMAIN index
               THEN (IF \E i \in DOMAIN index[w] : index[w][i] = id
                       THEN index[w] ELSE Append(index[w], id))
               ELSE <<id>>)
       ELSE index[w]]

\* a process_corpus that puts the identifier at the front of the lists
IndexAfter_prepend(index, id, text) ==
  [w \in DOMAIN index \cup parse_text_to_word(text) |->
     IF w \in parse_text_to_word(text)
       THEN (IF w \in DOMAIN index THEN <<id>> \o index[w] ELSE <<id>>)
       ELSE index[w]]

\* a process_corpus that appends only to the lists that existed before
IndexAfter_new_empty(index, id, text) ==
  [w \in DOMAIN index \cup parse_text_to_word(text) |->
     IF w \in parse_text_to_word(text)
       THEN (IF w \in DOMAIN index THEN Append(index[w], id) ELSE <<>>)
       ELSE index[w]]

\* the loop body of process_corpus over all words of the text; the words are
\* distinct, so the order of the loop does not matter
IndexAfter(index, id, text) ==
  LET words == parse_text_to_word(text)
  IN  [w \in DOMAIN index \cup words |->
         IF w \in words
           THEN (IF w \in DOMAIN index THEN Append(index[w], id) ELSE <<id>>)
           ELSE index[w]]

\* max(current_ids) in the place of min(current_ids)
MinOf_max(current_ids) ==
  CHOOSE m \in {current_ids[i] : i \in DOMAIN current_ids} :
    \A i \in DOMAIN current_ids : m >= current_ids[i]

\* min(current_ids)
MinOf(current_ids) ==
  CHOOSE m \in {current_ids[i] : i \in DOMAIN current_ids} :
    \A i \in DOMAIN current_ids : m <= current_ids[i]

\* current_ids.index(min_val): the first position holding min_val
IndexOf(current_ids, val) ==
  CHOOSE p \in DOMAIN current_ids :
    current_ids[p] = val /\ \A r \in 1..(p - 1) : current_ids[r] # val

\* the first cursor advances, whatever stands under it
AdvancePos_first(current_ids) == 1

\* the position whose cursor the loop advances when the current ids differ
AdvancePos(current_ids) == IndexOf(current_ids, MinOf(current_ids))

\* the check made on the first query word only
WordMissing_first_only(index, query_words) ==
  \E i \in DOMAIN query_words : i = 1 /\ query_words[i] \notin DOMAIN index

\* the check made before the loop: some query word is not in the index
WordMissing(index, query_words) ==
  \E i \in DOMAIN query_words : query_words[i] \notin DOMAIN index

Outcome(kind, result, qwi, iters) ==
  [kind |-> kind, result |-> result, index |-> qwi, iters |-> iters]

\* the while True loop of search; qwi is query_words_index, iters counts the
\* iterations started.  The for loop stops at the first position whose word has
\* no list (a KeyError of the dictionary) or whose cursor is past the end.
RECURSIVE MergeLoop(_, _, _, _, _)
MergeLoop(index, query_words, qwi, result, iters) ==
  LET stop == {i \in DOMAIN query_words :
                 \/ query_words[i] \notin DOMAIN index
                 \/ qwi[i] >= Len(index[query_words[i]])}
  IN  IF stop # {}
        THEN LET first == CHOOSE i \in stop : \A j \in stop : i <= j
             IN  IF query_words[first] \notin DOMAIN index
                   THEN Outcome("KeyError", <<>>, qwi, iters + 1)
                   ELSE Outcome("ok", result, qwi, iters + 1)
      ELSE LET current_ids == [i \in DOMAIN query_words |-> index[query_words[i]][qwi[i] + 1]]
           IN  IF \A i \in DOMAIN current_ids : current_ids[i] = current_ids[1]
                 THEN IF current_ids = <<>>
                        \* current_ids[0] of an empty list
                        THEN Outcome("IndexError", <<>>, qwi, iters + 1)
                        ELSE MergeLoop(index, query_words,
                                       [i \in DOMAIN qwi |-> qwi[i] + 1],
                                       Append(result, current_ids[1]), iters + 1)
               ELSE MergeLoop(index, query_words,
                              [qwi EXCEPT ![AdvancePos(current_ids)] = @ + 1],
                              result, iters + 1)

\* the same loop, as the list of its iterations: the cursors and the result
\* each iteration starts with
RECURSIVE MergeTrace(_, _, _, _)
MergeTrace(index, query_words, qwi, result) ==
  LET here == [index |-> qwi, result |-> result]
      stop == {i \in DOMAIN query_words :
                 \/ query_words[i] \notin DOMAIN index
                 \/ qwi[i] >= Len(index[query_words[i]])}
  IN  IF stop # {} THEN <<here>>
      ELSE LET current_ids == [i \in DOMAIN query_words |-> index[query_words[i]][qwi[i] + 1]]
           IN  IF \A i \in DOMAIN current_ids : current_ids[i] = current_ids[1]
                 THEN IF current_ids = <<>>
                        THEN <<here>>
                        ELSE <<here>> \o MergeTrace(index, query_words,
                                                    [i \in DOMAIN qwi |-> qwi[i] + 1],
                                                    Append(result, current_ids[1]))
               ELSE <<here>> \o MergeTrace(index, query_words,
                                           [qwi EXCEPT ![AdvancePos(current_ids)] = @ + 1],
                                           result)

\* the iterations of BOWInvertedIndexEngine.search(query) once the check for
\* missing words has passed
SearchTrace(index, order, query) ==
  LET query_words == order[parse_text_to_word(query)]
  IN  MergeTrace(index, query_words, [i \in DOMAIN query_words |-> 0], <<>>)

\* BOWInvertedIndexEngine.search on the word list query_words
SearchWords(index, query_words) ==
  LET zeros == [i \in DOMAIN query_words |-> 0]
  IN  IF WordMissing(index, query_words)
        THEN Outcome("ok", <<>>, zeros, 0)
        ELSE MergeLoop(index, query_words, zeros, <<>>, 0)

\* BOWInvertedIndexEngine.search(query): list(set) enumerates the words in the
\* order the run gives that set
BaseSearch(index, order, query) ==
  SearchWords(index, order[parse_text_to_word(query)])

\* ------------------------------------------------------------------ LRUCache

\* LRUCache delegates to pylru.lrucache: a mapping of fixed size that keeps its
\* entries in order of use.  "key in cache" does not count as a use, cache[key]
\* and cache[key] = value do, and a new key takes over the node of the least
\* recently used entry once every node is taken.  The cache is modelled as the
\* list of its entries, most recently used first.

\* LRUCache.__init__(size=2)
CacheSize == 2

CacheKeys(c) == {c[i].key : i \in DOMAIN c}

\* LRUCache.has: key in self.cache (does not change the recency order)
has(c, key) == key \in CacheKeys(c)

\* position of a key that is present
PosOf(c, key) == CHOOSE i \in DOMAIN c : c[i].key = key

\* the list c without its entry at position p
Without(c, p) == [i \in 1..(Len(c) - 1) |-> IF i < p THEN c[i] ELSE c[i + 1]]

\* a get that returns the value of the most recently used entry
get_first(c, key) == c[1].value

\* LRUCache.get: the value stored under a present key
get(c, key) == c[PosOf(c, key)].value

\* the effect of LRUCache.get on the cache: the entry becomes the most recent
Touched(c, key) == <<c[PosOf(c, key)]>> \o Without(c, PosOf(c, key))

\* a set that never removes the least recently used entry
set_no_evict(c, key, value) ==
  IF has(c, key) THEN <<[key |-> key, value |-> value]>> \o Without(c, PosOf(c, key))
  ELSE <<[key |-> key, value |-> value]>> \o c

\* LRUCache.set: self.cache[key] = value.  A present key is updated and becomes
\* the most recent; a new key takes the place of the least recently used entry
\* when the cache is full.
set(c, key, value) ==
  LET entry == [key |-> key, value |-> value]
  IN  IF has(c, key) THEN <<entry>> \o Without(c, PosOf(c, key))
      ELSE IF Len(c) >= CacheSize THEN <<entry>> \o Without(c, Len(c))
      ELSE <<entry>> \o c

\* ------------------------------------------------------------------ actions

NoOutcome == Outcome("none", <<>>, <<>>, 0)

\* a call: its name, its argument, whether the cache had the query, the outcome
\* and the cache keys the call removed
Call(op, query, hit, out, evicted) ==
  [op |-> op, query |-> query, hit |-> hit, out |-> out, evicted |-> evicted]

\* the elements of a list
Range(list) == {list[i] : i \in DOMAIN list}

\* what a caller can tell of an outcome: the exception, or the set of identifiers
Seen(out) == [kind |-> out.kind, ids |-> Range(out.result)]

NotSeen == [kind |-> "none", ids |-> {}]

\* no text is given to the tokenizer alone
NotParsed == [text |-> <<>>, words |-> {}, done |-> FALSE]

\* the texts of at most n characters
TextsUpTo(n) == UNION {[1..k -> Chars] : k \in 0..n}

Init ==
  /\ inverted_index = <<>>
  /\ set_order \in {f \in [QueryWordSets -> UNION {Orderings(S) : S \in QueryWordSets}] :
                      \A S \in QueryWordSets : f[S] \in Orderings(S)}
  /\ cache = <<>>
  /\ added = <<>>
  /\ seen = <<>>
  /\ last = Call("init", <<>>, FALSE, NoOutcome, {})
  /\ parsed = NotParsed

\* the same initial state, with the history of returned results kept
InitRepeat ==
  /\ inverted_index = <<>>
  /\ set_order \in {f \in [QueryWordSets -> UNION {Orderings(S) : S \in QueryWordSets}] :
                      \A S \in QueryWordSets : f[S] \in Orderings(S)}
  /\ cache = <<>>
  /\ added = <<>>
  /\ seen = [q \in Queries |-> NotSeen]
  /\ last = Call("init", <<>>, FALSE, NoOutcome, {})
  /\ parsed = NotParsed

\* BOWInvertedIndexEngine.process_corpus(id, text), on both engines
process_corpus(id, text) ==
  /\ Len(added) < MaxDocs
  /\ inverted_index' = IndexAfter(inverted_index, id, text)
  /\ added' = Append(added, <<id, text>>)
  /\ seen' = [q \in DOMAIN seen |-> NotSeen]
  /\ last' = Call("add", text, FALSE, NoOutcome, {})
  /\ UNCHANGED <<set_order, cache, parsed>>

\* BOWInvertedIndexEngine.search(query), on the engine without cache
search(query) ==
  /\ last' = Call("search", query, FALSE, BaseSearch(inverted_index, set_order, query), {})
  /\ UNCHANGED <<inverted_index, set_order, cache, added, seen, parsed>>

\* a search that stores a computed result only when it is not empty
CacheAfterSearch_skip_empty(c, index, order, query) ==
  IF has(c, query) THEN Touched(c, query)
  ELSE LET out == BaseSearch(index, order, query)
       IN  IF out.kind = "ok" /\ out.result # <<>> THEN set(c, query, out.result) ELSE c

\* the cache after BOWInvertedIndexEngineWithCache.search(query)
CacheAfterSearch(c, index, order, query) ==
  IF has(c, query) THEN Touched(c, query)
  ELSE LET out == BaseSearch(index, order, query)
       IN  IF out.kind = "ok" THEN set(c, query, out.result) ELSE c

\* what BOWInvertedIndexEngineWithCache.search(query) returns or raises
CachedOutcome(c, index, order, query) ==
  IF has(c, query) THEN Outcome("ok", get(c, query), <<>>, 0)
  ELSE BaseSearch(index, order, query)

\* BOWInvertedIndexEngineWithCache.search(query)
cached_search(query) ==
  /\ cache' = CacheAfterSearch(cache, inverted_index, set_order, query)
  /\ last' = Call("cached_search", query, has(cache, query),
                  CachedOutcome(cache, inverted_index, set_order, query),
                  CacheKeys(cache) \ CacheKeys(cache'))
  /\ seen' = [q \in DOMAIN seen |->
                IF q = query
                  THEN Seen(CachedOutcome(cache, inverted_index, set_order, query))
                  ELSE seen[q]]
  /\ UNCHANGED <<inverted_index, set_order, added, parsed>>

\* what a caller may do to the list it got back
Mutations == {"clear", "pop"}

Mutated(list, m) ==
  IF m = "clear" THEN <<>> ELSE SubSeq(list, 1, Len(list) - 1)

\* The caller changes the list the cached engine has just returned.  That list
\* is the very object held by the cache under the query (set stores the
\* reference, get returns it), so the cached value changes with it.
mutate_result(m) ==
  /\ last.op \in {"cached_search", "mutate"}
  /\ last.out.kind = "ok"
  /\ last.out.result # <<>>
  /\ cache' = [i \in DOMAIN cache |->
                 IF cache[i].key = last.query
                   THEN [cache[i] EXCEPT !.value = Mutated(last.out.result, m)]
                   ELSE cache[i]]
  /\ last' = Call("mutate", last.query, last.hit,
                  [last.out EXCEPT !.result = Mutated(last.out.result, m)], {})
  /\ UNCHANGED <<inverted_index, set_order, added, seen, parsed>>

\* the engine without cache: documents are added and queries are searched
IndexNext ==
  \/ \E id \in Ids, text \in Texts : process_corpus(id, text)
  \/ \E query \in Queries : search(query)

SpecIndex == Init /\ [][IndexNext]_vars

\* process_corpus as inherited by BOWInvertedIndexEngineWithCache
cached_process_corpus(id, text) ==
  /\ Len(added) < MaxCacheDocs
  /\ process_corpus(id, text)

\* the engine with cache, and a caller that may change the lists it gets back
Next ==
  \/ \E id \in Ids, text \in Texts : cached_process_corpus(id, text)
  \/ \E query \in Queries : cached_search(query)
  \/ \E m \in Mutations : mutate_result(m)

Spec == Init /\ [][Next]_vars

\* the engine with cache, with the history of returned results kept
SpecRepeat == InitRepeat /\ [][Next]_vars

\* process_corpus of a document of BuildTexts
build_process_corpus(id, text) ==
  /\ Len(added) < MaxBuildDocs
  /\ process_corpus(id, text)

\* the engine with cache, documents and queries in any order
GrowNext ==
  \/ \E id \in Ids, text \in BuildTexts : build_process_corpus(id, text)
  \/ \E query \in Queries : cached_search(query)

SpecGrow == Init /\ [][GrowNext]_vars

\* process_corpus as main calls it: before the first query is read
main_process_corpus(id, text) ==
  /\ last.op \in {"init", "add"}
  /\ build_process_corpus(id, text)

\* main on the engine with cache: the documents are added, then the queries
\* are searched and their results printed
MainNext ==
  \/ \E id \in Ids, text \in BuildTexts : main_process_corpus(id, text)
  \/ \E query \in Queries : cached_search(query)

SpecMain == Init /\ [][MainNext]_vars

\* BOWInvertedIndexEngine.search(query) on the engine without cache, list(set)
\* giving the words in the order query_words
search_ordered(query, query_words) ==
  /\ last' = Call("search", query, FALSE, SearchWords(inverted_index, query_words), {})
  /\ UNCHANGED <<inverted_index, set_order, cache, added, seen, parsed>>

\* the engine without cache, over three words, with every order of the query words
PermNext ==
  \/ \E id \in Ids, text \in PermTexts : process_corpus(id, text)
  \/ \E query \in PermQueries :
       \E query_words \in Orderings(parse_text_to_word(query)) :
         search_ordered(query, query_words)

\* the order of list(set) is drawn at each search here, not once for the run
InitPerm ==
  /\ Init
  /\ set_order = [S \in QueryWordSets |-> CHOOSE o \in Orderings(S) : TRUE]

SpecPerm == InitPerm /\ [][PermNext]_vars

\* the tokenizer alone: a text of at most MaxLen characters is drawn
InitTok ==
  /\ inverted_index = <<>>
  /\ set_order \in {f \in [QueryWordSets -> UNION {Orderings(S) : S \in QueryWordSets}] :
                      \A S \in QueryWordSets : f[S] \in Orderings(S)}
  /\ cache = <<>>
  /\ added = <<>>
  /\ seen = <<>>
  /\ last = Call("init", <<>>, FALSE, NoOutcome, {})
  /\ parsed \in {[text |-> t, words |-> {}, done |-> FALSE] : t \in TextsUpTo(MaxLen)}

\* BOWInvertedIndexEngine.parse_text_to_word(text), on the text drawn
tokenize ==
  /\ ~parsed.done
  /\ parsed' = [parsed EXCEPT !.words = parse_text_to_word(parsed.text), !.done = TRUE]
  /\ UNCHANGED <<inverted_index, set_order, cache, added, seen, last>>

SpecTok == InitTok /\ [][tokenize]_vars

\* ------------------------------------------------------------------ claims

\* the identifiers were added in strictly increasing order (hence pairwise distinct)
AddedIncreasing ==
  \A i, j \in DOMAIN added : i < j => added[i][1] < added[j][1]

\* the identifiers of the added documents whose text contains every word of words
DocsWithAll(words) ==
  {added[i][1] : i \in {j \in DOMAIN added : words \subseteq parse_text_to_word(added[j][2])}}

NoDuplicates(list) == \A i, j \in DOMAIN list : list[i] = list[j] => i = j

\* C1: on an index built from identifiers added in strictly increasing order,
\* search of a query with at least one word returns normally a list without
\* duplicates whose elements are exactly the documents containing every word
\* of the query.
C1_SearchIsIntersection ==
  (last.op = "search" /\ parse_text_to_word(last.query) # {} /\ AddedIncreasing)
    => /\ last.out.kind = "ok"
       /\ NoDuplicates(last.out.result)
       /\ Range(last.out.result) = DocsWithAll(parse_text_to_word(last.query))

\* a two-word query over three documents in increasing order, answered by some
\* but not all of them, the two postings lists being of different lengths
C1_Witness ==
  /\ last.op = "search"
  /\ AddedIncreasing
  /\ Len(added) = 3
  /\ Cardinality(parse_text_to_word(last.query)) = 2
  /\ Len(last.out.result) = 2
  /\ \E w1, w2 \in parse_text_to_word(last.query) :
       /\ w1 \in DOMAIN inverted_index /\ w2 \in DOMAIN inverted_index
       /\ Len(inverted_index[w1]) = 3 /\ Len(inverted_index[w2]) = 2

\* C2: search of a query that tokenizes to no word returns normally, with an
\* empty result.
C2_EmptyQueryReturnsEmpty ==
  (last.op = "search" /\ parse_text_to_word(last.query) = {})
    => (last.out.kind = "ok" /\ last.out.result = <<>>)

\* C7: when a word of the query is not in the index, search returns the empty
\* result without starting the loop and with every cursor at zero.
C7_MissingTermShortCircuits ==
  (last.op = "search" /\ \E w \in parse_text_to_word(last.query) : w \notin DOMAIN inverted_index)
    => /\ last.out.kind = "ok"
       /\ last.out.result = <<>>
       /\ last.out.iters = 0
       /\ \A i \in DOMAIN last.out.index : last.out.index[i] = 0

\* a two-word query of which one word has a postings list of two documents and
\* the other word is not in the index
C7_Witness ==
  /\ last.op = "search"
  /\ \E w1, w2 \in parse_text_to_word(last.query) :
       /\ w1 \in DOMAIN inverted_index /\ Len(inverted_index[w1]) >= 2
       /\ w2 \notin DOMAIN inverted_index
  /\ last.out.result = <<>>

\* C3: every search of the engine with cache has the outcome the engine
\* without cache has for the same query on the same index.
C3_CacheTransparent ==
  last.op = "cached_search"
    => /\ last.out.kind = BaseSearch(inverted_index, set_order, last.query).kind
       /\ last.out.result = BaseSearch(inverted_index, set_order, last.query).result

\* C4: the cache never holds more than CacheSize entries and no key twice.
C4_CacheBounded ==
  /\ Len(cache) <= CacheSize
  /\ \A i, j \in DOMAIN cache : cache[i].key = cache[j].key => i = j

\* the cache is full right after a miss that removed an entry to make room
C4_Witness ==
  /\ last.op = "cached_search"
  /\ ~last.hit
  /\ last.evicted # {}
  /\ Len(cache) = CacheSize

\* C5: a search that misses while the cache holds CacheSize entries removes
\* exactly one entry, the least recently used one, and the query is cached
\* afterwards.
C5_MissEvictsLRU ==
  [][\A q \in Queries :
       (cached_search(q) /\ ~has(cache, q) /\ Len(cache) = CacheSize)
         => /\ CacheKeys(cache) \ CacheKeys(cache') = {cache[Len(cache)].key}
            /\ has(cache', q)]_vars

\* C6: a hit returns the stored result without running the merge and changes
\* neither the index, nor the set of cached keys, nor any stored result; a miss
\* that returns normally stores the computed result, empty or not, under the
\* raw query.
C6_HitFrameMissInsert ==
  [][\A q \in Queries :
       cached_search(q) =>
         IF has(cache, q)
           THEN /\ last'.out.kind = "ok"
                /\ last'.out.result = get(cache, q)
                /\ last'.out.iters = 0
                /\ inverted_index' = inverted_index
                /\ Len(cache') = Len(cache)
                /\ CacheKeys(cache') = CacheKeys(cache)
                /\ \A k \in CacheKeys(cache) : get(cache', k) = get(cache, k)
           ELSE /\ last'.out = BaseSearch(inverted_index, set_order, q)
                /\ last'.out.kind = "ok"
                     => (has(cache', q) /\ get(cache', q) = last'.out.result)]_vars

\* a hit while the cache is full, on an entry whose stored result is not empty
C6_Witness ==
  /\ last.op = "cached_search"
  /\ last.hit
  /\ last.out.result # <<>>
  /\ Len(cache) = CacheSize
  /\ cache[1].key = last.query

\* C8: a change made by the caller to a returned list leaves the cache as it was.
C8_MutationLeavesCache ==
  [][\A m \in Mutations : mutate_result(m) => cache' = cache]_vars

\* C9: a query searched right after a different query with the same words, and
\* not itself in the cache, is a miss that is recomputed and gets its own
\* entry.
C9_RawKeyOwnSlot ==
  [][\A q \in Queries :
       (/\ cached_search(q)
        /\ last.op = "cached_search"
        /\ last.query # q
        /\ parse_text_to_word(last.query) = parse_text_to_word(q)
        /\ ~has(cache, q))
         => /\ ~last'.hit
            /\ last'.out = BaseSearch(inverted_index, set_order, q)
            /\ has(cache', q)]_vars

\* C10: a query searched again, with no document added since it was last
\* searched, returns the same set of identifiers as then.
C10_RepeatedQuerySameSet ==
  [][\A q \in DOMAIN seen :
       (cached_search(q) /\ seen[q] # NotSeen) => seen'[q] = seen[q]]_vars

\* alphanumeric characters and whitespace, as C11 names them
IsAlnum(c) == c \in Lowers \cup Uppers \cup Digits

IsWhitespace(c) == c \in Space \cup OtherWS

\* the pieces of a text between whitespace characters
RECURSIVE PiecesBetweenWhitespace(_, _)
PiecesBetweenWhitespace(text, piece) ==
  IF text = <<>> THEN {piece}
  ELSE IF IsWhitespace(Head(text))
         THEN {piece} \cup PiecesBetweenWhitespace(Tail(text), <<>>)
  ELSE PiecesBetweenWhitespace(Tail(text), Append(piece, Head(text)))

\* the tokens C11 describes: every character that is neither alphanumeric nor
\* whitespace becomes a space, the text is lower-cased and split on whitespace,
\* and the empty pieces are dropped
TokensAsDescribed(text) ==
  PiecesBetweenWhitespace(
    [i \in 1..Len(text) |->
       IF IsAlnum(text[i]) \/ IsWhitespace(text[i]) THEN LowerChar(text[i]) ELSE " "],
    <<>>) \ {<<>>}

\* C11: parse_text_to_word returns exactly the tokens described, each of them
\* non-empty and made of lower-case letters and digits only.
C11_TokensAsDescribed ==
  parsed.done
    => /\ parsed.words = TokensAsDescribed(parsed.text)
       /\ \A w \in parsed.words :
            w # <<>> /\ \A i \in DOMAIN w : w[i] \in Lowers \cup Digits

\* the identifiers added are pairwise distinct
AddedDistinct ==
  \A i, j \in DOMAIN added : added[i][1] = added[j][1] => i = j

\* C12: on an index built from pairwise distinct identifiers added in any
\* order, search of a query with at least one word returns exactly the
\* documents containing every word of the query.
C12_AnyOrderIntersection ==
  (last.op = "search" /\ parse_text_to_word(last.query) # {} /\ AddedDistinct)
    => /\ last.out.kind = "ok"
       /\ Range(last.out.result) = DocsWithAll(parse_text_to_word(last.query))

\* the number of positions of a list that hold id
Occurrences(list, id) == Cardinality({i \in DOMAIN list : list[i] = id})

\* C16: when a document was added exactly twice, with the same identifier and
\* the same text, and its identifier was used by no other add, the identifier
\* occurs exactly twice in the postings list of every word of the text.
C16_DuplicateAddAppendsTwice ==
  \A id \in Ids, text \in Texts :
    (/\ Cardinality({i \in DOMAIN added : added[i] = <<id, text>>}) = 2
     /\ \A i \in DOMAIN added : added[i][1] = id => added[i][2] = text)
      => \A w \in parse_text_to_word(text) :
           w \in DOMAIN inverted_index /\ Occurrences(inverted_index[w], id) = 2

\* a document of two words added, then another document, then the first one again
C16_Witness ==
  /\ Len(added) = 3
  /\ added[1] = added[3]
  /\ added[2][1] # added[1][1]
  /\ Cardinality(parse_text_to_word(added[1][2])) = 2
  /\ parse_text_to_word(added[2][2]) \cap parse_text_to_word(added[1][2]) # {}

\* C19: every word of the index has a non-empty postings list, and adding a
\* text that tokenizes to no word leaves the index as it was.
C19_NoEmptyPostings ==
  /\ [](\A w \in DOMAIN inverted_index : inverted_index[w] # <<>>)
  /\ [][\A id \in Ids, text \in Texts :
          (process_corpus(id, text) /\ parse_text_to_word(text) = {})
            => inverted_index' = inverted_index]_vars

\* a text without words was added to an index that holds two words
C19_Witness ==
  /\ last.op = "add"
  /\ parse_text_to_word(last.query) = {}
  /\ Cardinality(DOMAIN inverted_index) = 2

\* the last call was a search, on the engine without cache, of a query whose
\* words all have a postings list
SearchedAllPresent ==
  /\ last.op = "search"
  /\ \A w \in parse_text_to_word(last.query) : w \in DOMAIN inverted_index

\* the word list, the postings lists and the iterations of the last search
LastWords == set_order[parse_text_to_word(last.query)]

LastList(i) == inverted_index[LastWords[i]]

LastTrace == SearchTrace(inverted_index, set_order, last.query)

RECURSIVE SumOfLengths(_)
SumOfLengths(n) == IF n = 0 THEN 0 ELSE Len(LastList(n)) + SumOfLengths(n - 1)

\* C14: the loop ends by returning; every iteration but the last advances at
\* least one cursor and moves none back; no cursor exceeds the length of its
\* list; an iteration that goes on read every list inside its bounds; and
\* there are at most (sum of the lengths of the lists) + 1 iterations.
C14_LoopTerminates ==
  SearchedAllPresent
    => /\ last.out.kind = "ok"
       /\ last.out.iters = Len(LastTrace)
       /\ last.out.index = LastTrace[Len(LastTrace)].index
       /\ Len(LastTrace) <= SumOfLengths(Len(LastWords)) + 1
       /\ \A k \in 1..(Len(LastTrace) - 1) :
            /\ \E i \in DOMAIN LastWords : LastTrace[k + 1].index[i] > LastTrace[k].index[i]
            /\ \A i \in DOMAIN LastWords : LastTrace[k + 1].index[i] >= LastTrace[k].index[i]
            /\ \A i \in DOMAIN LastWords : LastTrace[k].index[i] < Len(LastList(i))
       /\ \A k \in DOMAIN LastTrace :
            \A i \in DOMAIN LastWords : LastTrace[k].index[i] <= Len(LastList(i))

\* the identifiers under the cursors at the start of iteration k
CurrentIds(k) == [i \in DOMAIN LastWords |-> LastList(i)[LastTrace[k].index[i] + 1]]

\* C18: an iteration that does not return either finds all current
\* identifiers equal, appends that identifier and advances every cursor by
\* one, or advances by one only the first cursor under which the minimum of
\* the current identifiers stands, and leaves the result as it was.
C18_IterationSteps ==
  SearchedAllPresent
    => /\ last.out.kind = "ok"
       /\ \A k \in 1..(Len(LastTrace) - 1) :
            IF \A i, j \in DOMAIN LastWords : CurrentIds(k)[i] = CurrentIds(k)[j]
              THEN /\ LastTrace[k + 1].result = Append(LastTrace[k].result, CurrentIds(k)[1])
                   /\ \A i \in DOMAIN LastWords :
                        LastTrace[k + 1].index[i] = LastTrace[k].index[i] + 1
              ELSE /\ LastTrace[k + 1].result = LastTrace[k].result
                   /\ \E p \in DOMAIN LastWords :
                        /\ \A j \in DOMAIN LastWords : CurrentIds(k)[p] <= CurrentIds(k)[j]
                        /\ \A j \in 1..(p - 1) : CurrentIds(k)[j] > CurrentIds(k)[p]
                        /\ LastTrace[k + 1].index[p] = LastTrace[k].index[p] + 1
                        /\ \A j \in DOMAIN LastWords \ {p} :
                             LastTrace[k + 1].index[j] = LastTrace[k].index[j]

\* C13: when every document is added before the first query, each search of
\* the engine with cache has the outcome the engine without cache has on the
\* same index, and every cache entry holds the result of its key on the
\* current index.
C13_BuildThenQuery ==
  /\ last.op = "cached_search"
       => /\ last.out.kind = BaseSearch(inverted_index, set_order, last.query).kind
          /\ last.out.result = BaseSearch(inverted_index, set_order, last.query).result
  /\ \A i \in DOMAIN cache :
       /\ BaseSearch(inverted_index, set_order, cache[i].key).kind = "ok"
       /\ cache[i].value = BaseSearch(inverted_index, set_order, cache[i].key).result

\* a hit on the older of two entries with different results, after two documents
C13_Witness ==
  /\ last.op = "cached_search"
  /\ last.hit
  /\ Len(added) = 2
  /\ Len(cache) = CacheSize
  /\ cache[1].key = last.query
  /\ cache[1].value # cache[2].value
  /\ last.out.result # <<>>

\* list is a prefix of longer
IsPrefix(list, longer) ==
  /\ Len(list) <= Len(longer)
  /\ \A i \in DOMAIN list : longer[i] = list[i]

\* C15: process_corpus(id, text) appends id once at the end of the list of each
\* word of the text, creating the list of a new word, and leaves the other
\* lists and the cache as they were; over any step every list is a prefix of
\* the later list of the same word and no word is removed.
C15_AddAppendsOnly ==
  /\ [][\A id \in Ids, text \in BuildTexts :
          process_corpus(id, text)
            => /\ DOMAIN inverted_index' = DOMAIN inverted_index \cup parse_text_to_word(text)
               /\ \A w \in parse_text_to_word(text) :
                    inverted_index'[w] =
                      Append(IF w \in DOMAIN inverted_index THEN inverted_index[w] ELSE <<>>, id)
               /\ \A w \in DOMAIN inverted_index \ parse_text_to_word(text) :
                    inverted_index'[w] = inverted_index[w]
               /\ cache' = cache]_vars
  /\ [][\A w \in DOMAIN inverted_index :
          /\ w \in DOMAIN inverted_index'
          /\ IsPrefix(inverted_index[w], inverted_index'[w])]_vars

\* a document was just added while the cache was full: the list of one of its
\* words existed before, the list of another word was left alone
C15_Witness ==
  /\ last.op = "add"
  /\ Len(cache) = CacheSize
  /\ Len(added) = 2
  /\ \E w \in parse_text_to_word(last.query) : Len(inverted_index[w]) = 2
  /\ \E w \in DOMAIN inverted_index \ parse_text_to_word(last.query) :
       Len(inverted_index[w]) = 1

\* C17: on an index built from pairwise distinct identifiers, the loop run
\* with the words of a query in any order gives the same result as the search
\* made.
C17_TermOrderIrrelevant ==
  (last.op = "search" /\ AddedDistinct /\ parse_text_to_word(last.query) # {})
    => \A query_words \in Orderings(parse_text_to_word(last.query)) :
         /\ SearchWords(inverted_index, query_words).kind = last.out.kind
         /\ SearchWords(inverted_index, query_words).result = last.out.result

\* a query of three words found a document among three added with distinct
\* identifiers, not in increasing order
C17_Witness ==
  /\ last.op = "search"
  /\ AddedDistinct
  /\ ~AddedIncreasing
  /\ Len(added) = 3
  /\ Cardinality(parse_text_to_word(last.query)) = 3
  /\ last.out.result # <<>>

====
